---- MODULE Spec2Model ----
(***************************************************************************)
(* Model of icalendar/values/datetime.go: the iCalendar date-time value    *)
(* codec (DateTime, DateTimeFullDay, DateTimes).                           *)
(*                                                                         *)
(* A text is a sequence of one-character strings.  A time.Time is a record *)
(* [day, sec, nsec, loc]: the instant as (days since 0001-01-01, second of *)
(* the day, nanosecond) in UTC, and the location it is presented in.       *)
(* The instants of the model lie in the year 2024, but for the zero time   *)
(* (year 0001) and one instant of the year 10000, which the four-digit     *)
(* YYYY field of the format cannot spell.                                  *)
(***************************************************************************)
EXTENDS Integers, Sequences, FiniteSets, TLC

VARIABLES d, ds, ret, rt

vars == <<d, ds, ret, rt>>

(***************************************************************************)
(* Bounds of the model.                                                    *)
(***************************************************************************)
\* native instants are sampled every half hour from midnight, this many steps
MaxHalfHours == 16
\* the texts of the three layouts are sampled every half hour, this many steps
MaxTextHalfHours == 6
\* longest DateTimes list the model builds
MaxListLen == 3
\* most tokens in one list text
MaxTokens == 2

(***************************************************************************)
(* Characters and numbers.                                                 *)
(***************************************************************************)
Digits == <<"0", "1", "2", "3", "4", "5", "6", "7", "8", "9">>

DigitVal == [c \in {Digits[k] : k \in 1..10} |-> (CHOOSE k \in 1..10 : Digits[k] = c) - 1]

isDigit(s, i) == i <= Len(s) /\ s[i] \in DOMAIN DigitVal

RECURSIVE atoi(_)
atoi(s) == IF s = <<>> THEN 0
           ELSE 10 * atoi(SubSeq(s, 1, Len(s) - 1)) + DigitVal[s[Len(s)]]

AllDigits(s) == \A i \in 1..Len(s) : isDigit(s, i)

RECURSIVE Pow10(_)
Pow10(n) == IF n = 0 THEN 1 ELSE 10 * Pow10(n - 1)

RECURSIVE itoa(_)
itoa(n) == IF n < 10 THEN <<Digits[n + 1]>>
           ELSE itoa(n \div 10) \o <<Digits[(n % 10) + 1]>>

RECURSIVE ZeroPad(_, _)
ZeroPad(s, width) == IF Len(s) >= width THEN s ELSE ZeroPad(<<"0">> \o s, width)

\* decimal text of n >= 0, zero-padded to at least `width` characters
appendInt(n, width) == ZeroPad(itoa(n), width)

Drop(s, n) == SubSeq(s, n + 1, Len(s))

HasSuffix(s, suffix) ==
  Len(s) >= Len(suffix) /\ SubSeq(s, Len(s) - Len(suffix) + 1, Len(s)) = suffix

(***************************************************************************)
(* The proleptic Gregorian calendar of package time.                       *)
(***************************************************************************)
isLeap(year) == year % 4 = 0 /\ (year % 100 # 0 \/ year % 400 = 0)

daysBefore == <<0, 31, 59, 90, 120, 151, 181, 212, 243, 273, 304, 334, 365>>

daysIn(month, year) ==
  IF month = 2 /\ isLeap(year) THEN 29
  ELSE daysBefore[month + 1] - daysBefore[month]

\* days from 0001-01-01 to the first day of `year`
daysSinceEpoch(year) ==
  LET y == year - 1
  IN 365 * y + (y \div 4) - (y \div 100) + (y \div 400)

\* day number of a civil date
DayOf(year, month, day) ==
  daysSinceEpoch(year) + daysBefore[month]
    + (IF month > 2 /\ isLeap(year) THEN 1 ELSE 0) + (day - 1)

\* the civil date of a day number >= 0, by 400-, 100-, 4- and 1-year cycles
absDate(day) ==
  LET n400 == day \div 146097
      r400 == day % 146097
      c100 == r400 \div 36524
      n100 == IF c100 = 4 THEN 3 ELSE c100
      r100 == r400 - 36524 * n100
      n4   == r100 \div 1461
      r4   == r100 % 1461
      c1   == r4 \div 365
      n1   == IF c1 = 4 THEN 3 ELSE c1
      yday == r4 - 365 * n1
      year == 400 * n400 + 100 * n100 + 4 * n4 + n1 + 1
      leap == IF isLeap(year) THEN 1 ELSE 0
      before(m) == daysBefore[m] + (IF m > 2 THEN leap ELSE 0)
      month == CHOOSE m \in 1..12 :
                 /\ before(m) <= yday
                 /\ (m = 12 \/ yday < before(m + 1))
  IN [year |-> year, month |-> month, day |-> yday - before(month) + 1]

(***************************************************************************)
(* Instants: [day, sec] in UTC, ordered lexicographically.                 *)
(***************************************************************************)
Inst(day, sec) == [day |-> day, sec |-> sec]

Before(a, b) == a.day < b.day \/ (a.day = b.day /\ a.sec < b.sec)

\* the instant `off` seconds after a
AddSeconds(a, off) ==
  LET total == a.sec + off + 86400
  IN Inst(a.day - 1 + (total \div 86400), total % 86400)

Civil(year, month, day, hour, min, sec) ==
  Inst(DayOf(year, month, day), hour * 3600 + min * 60 + sec)

alpha == Inst(-100000, 0)
omega == Inst(100000000, 0)

(***************************************************************************)
(* Locations.  A location is named by the identity the program compares    *)
(* with == : "UTC" is time.UTC, "Local" is time.Local, the IANA names are  *)
(* what time.LoadLocation returns for them, and "Fixed" is a               *)
(* time.FixedZone with the empty name.                                     *)
(***************************************************************************)
UTC == "UTC"
Local == "Local"
NewYork == "America/New_York"
Berlin == "Europe/Berlin"
Fixed == "Fixed"

Locations == {UTC, Local, NewYork, Berlin, Fixed}

\* Location.String()
LocString(loc) == IF loc = Fixed THEN "" ELSE loc

\* The periods of each location: a period starts at `at` and lasts to the next.
\* New York and Berlin carry their local mean time and their 2024 transitions;
\* the ambient zone of the model is a fixed UTC+3.
ZoneTable ==
  [loc \in Locations |->
    CASE loc = NewYork ->
           << [off |-> -17762, at |-> alpha],
              [off |-> -18000, at |-> Civil(1883, 11, 18, 17, 0, 0)],
              [off |-> -14400, at |-> Civil(2024, 3, 10, 7, 0, 0)],
              [off |-> -18000, at |-> Civil(2024, 11, 3, 6, 0, 0)] >>
      [] loc = Berlin ->
           << [off |-> 3208, at |-> alpha],
              [off |-> 3600, at |-> Civil(1893, 3, 31, 23, 6, 32)],
              [off |-> 7200, at |-> Civil(2024, 3, 31, 1, 0, 0)],
              [off |-> 3600, at |-> Civil(2024, 10, 27, 1, 0, 0)] >>
      [] loc = Local -> << [off |-> 10800, at |-> alpha] >>
      [] loc = Fixed -> << [off |-> 19800, at |-> alpha] >>
      [] OTHER -> << [off |-> 0, at |-> alpha] >>]

\* the period of table z in force at instant u: its index
PeriodAt(z, u) ==
  CHOOSE k \in 1..Len(z) :
    /\ ~Before(u, z[k].at)
    /\ (k = Len(z) \/ Before(u, z[k + 1].at))

Period(z, i) ==
  [offset |-> z[i].off,
   start  |-> z[i].at,
   end    |-> IF i = Len(z) THEN omega ELSE z[i + 1].at]

\* Location.lookup: the period in force at instant u, with its bounds
lookup(loc, u) == Period(ZoneTable[loc], PeriodAt(ZoneTable[loc], u))

(***************************************************************************)
(* time.Time                                                               *)
(***************************************************************************)
Time(day, sec, nsec, loc) == [day |-> day, sec |-> sec, loc |-> loc, nsec |-> nsec]

\* the zero Time{}: 0001-01-01 00:00:00 UTC
ZeroTime == Time(0, 0, 0, UTC)

InstOf(t) == Inst(t.day, t.sec)

\* Time.Location()
Location(t) == t.loc

\* Time.Equal: the same instant, whatever the locations
Equal(t, u) == t.day = u.day /\ t.sec = u.sec /\ t.nsec = u.nsec

\* Time.Truncate(time.Second)
TruncateSecond(t) == [t EXCEPT !.nsec = 0]

\* the civil date and the time of day of a wall-clock instant w
Clock(c, w) ==
  [year |-> c.year, month |-> c.month, day |-> c.day, sec |-> w.sec % 60,
   hour |-> w.sec \div 3600, min |-> (w.sec % 3600) \div 60]

ClockOf(w) == Clock(absDate(w.day), w)

\* the wall clock t shows in its location
Wall(t) == ClockOf(AddSeconds(InstOf(t), lookup(t.loc, InstOf(t)).offset))

\* time.Date, once the wall clock is read as UTC (unix) and its period z found:
\* utc is the instant under z's offset; if z is not in force then, the offset in
\* force at utc is used
DateIn(unix, z, utc, nsec, loc) ==
  IF loc = UTC \/ z.offset = 0
  THEN Time(unix.day, unix.sec, nsec, loc)
  ELSE IF Before(utc, z.start) \/ ~Before(utc, z.end)
       THEN Time(AddSeconds(unix, -lookup(loc, utc).offset).day,
                 AddSeconds(unix, -lookup(loc, utc).offset).sec, nsec, loc)
       ELSE Time(utc.day, utc.sec, nsec, loc)

DateAt(unix, z, nsec, loc) == DateIn(unix, z, AddSeconds(unix, -z.offset), nsec, loc)

DateOf(unix, nsec, loc) == DateAt(unix, lookup(loc, unix), nsec, loc)

\* time.Date: the instant of a wall clock in a location
Date(year, month, day, hour, min, sec, nsec, loc) ==
  DateOf(Civil(year, month, day, hour, min, sec), nsec, loc)

(***************************************************************************)
(* Layouts.  A layout is the sequence of chunks package time cuts it into: *)
(* "2006" "01" "02" "15" "04" "05" are fields, any other chunk is literal. *)
(***************************************************************************)
DateFormatString == <<"2006", "01", "02">>
DateTimeFormatString == <<"2006", "01", "02", "T", "15", "04", "05">>
UTCDateTimeFormatString == <<"2006", "01", "02", "T", "15", "04", "05", "Z">>

RECURSIVE FormatChunks(_, _)
FormatChunks(w, layout) ==
  IF layout = <<>> THEN <<>>
  ELSE LET c == Head(layout)
           out == CASE c = "2006" -> appendInt(w.year, 4)
                    [] c = "01" -> appendInt(w.month, 2)
                    [] c = "02" -> appendInt(w.day, 2)
                    [] c = "15" -> appendInt(w.hour, 2)
                    [] c = "04" -> appendInt(w.min, 2)
                    [] c = "05" -> appendInt(w.sec, 2)
                    [] OTHER -> <<c>>
       IN out \o FormatChunks(w, Tail(layout))

\* Time.Format(layout)
Format(t, layout) == FormatChunks(Wall(t), layout)

\* the fields of a parse in progress; ok = FALSE once the value is rejected
ParseStart(value) ==
  [year |-> 1, month |-> 1, day |-> 1, sec |-> 0, hour |-> 0, min |-> 0,
   nsec |-> 0, rest |-> value, ok |-> TRUE]

Reject(p) == [p EXCEPT !.ok = FALSE]

\* getnum(value, fixed = TRUE): exactly two digits
TwoDigits(v) == Len(v) >= 2 /\ isDigit(v, 1) /\ isDigit(v, 2)

\* the digits that follow the first character of v
RECURSIVE DigitRun(_, _)
DigitRun(v, n) == IF isDigit(v, n + 1) THEN DigitRun(v, n + 1) ELSE n

\* parseNanoseconds: v[1] is the period, v[2..n] are digits, at most nine count
parseNanoseconds(v, n) ==
  LET m == IF n > 10 THEN 10 ELSE n
  IN atoi(SubSeq(v, 2, m)) * Pow10(10 - m)

\* one chunk of the layout consumed from the front of the value
ParseChunk(p, c) ==
  LET v == p.rest
  IN CASE c = "2006" ->
            IF Len(v) >= 4 /\ AllDigits(SubSeq(v, 1, 4))
            THEN [p EXCEPT !.year = atoi(SubSeq(v, 1, 4)), !.rest = Drop(v, 4)]
            ELSE Reject(p)
       [] c = "01" ->
            IF TwoDigits(v) /\ atoi(SubSeq(v, 1, 2)) \in 1..12
            THEN [p EXCEPT !.month = atoi(SubSeq(v, 1, 2)), !.rest = Drop(v, 2)]
            ELSE Reject(p)
       [] c = "02" ->
            IF TwoDigits(v)
            THEN [p EXCEPT !.day = atoi(SubSeq(v, 1, 2)), !.rest = Drop(v, 2)]
            ELSE Reject(p)
       [] c = "15" ->
            IF TwoDigits(v) /\ atoi(SubSeq(v, 1, 2)) < 24
            THEN [p EXCEPT !.hour = atoi(SubSeq(v, 1, 2)), !.rest = Drop(v, 2)]
            ELSE Reject(p)
       [] c = "04" ->
            IF TwoDigits(v) /\ atoi(SubSeq(v, 1, 2)) < 60
            THEN [p EXCEPT !.min = atoi(SubSeq(v, 1, 2)), !.rest = Drop(v, 2)]
            ELSE Reject(p)
       [] c = "05" ->
            IF TwoDigits(v) /\ atoi(SubSeq(v, 1, 2)) < 60
            THEN LET q == [p EXCEPT !.sec = atoi(SubSeq(v, 1, 2)), !.rest = Drop(v, 2)]
                     w == q.rest
                 IN \* a fractional second the layout does not mention is accepted
                    IF Len(w) >= 2 /\ w[1] = "." /\ isDigit(w, 2)
                    THEN LET n == DigitRun(w, 1)
                         IN [q EXCEPT !.nsec = parseNanoseconds(w, n), !.rest = Drop(w, n)]
                    ELSE q
            ELSE Reject(p)
       [] OTHER ->
            IF Len(v) >= 1 /\ v[1] = c
            THEN [p EXCEPT !.rest = Drop(v, 1)]
            ELSE Reject(p)

RECURSIVE ParseChunks(_, _)
ParseChunks(p, layout) ==
  IF ~p.ok THEN p
  ELSE IF layout = <<>>
       THEN IF p.rest = <<>> /\ p.day \in 1..daysIn(p.month, p.year)
            THEN p ELSE Reject(p)
       ELSE ParseChunks(ParseChunk(p, Head(layout)), Tail(layout))

\* the result of a parse from its fields p: [t, err]; err = "ok" is nil, and a
\* failed parse returns the zero Time
ParseResult(p, loc) ==
  IF p.ok
  THEN [t |-> Date(p.year, p.month, p.day, p.hour, p.min, p.sec, p.nsec, loc),
        err |-> "ok"]
  ELSE [t |-> ZeroTime, err |-> "parse"]

\* package time's parse(layout, value, defaultLocation)
parse(layout, value, loc) == ParseResult(ParseChunks(ParseStart(value), layout), loc)

\* time.LoadLocation(name): [loc, err]
LoadLocation(name) ==
  CASE name = "" \/ name = "UTC" -> [loc |-> UTC, err |-> "ok"]
    [] name = "Local" -> [loc |-> Local, err |-> "ok"]
    [] name \in {NewYork, Berlin} -> [loc |-> name, err |-> "ok"]
    [] OTHER -> [loc |-> UTC, err |-> "unknown time zone"]

(***************************************************************************)
(* Inputs.                                                                 *)
(***************************************************************************)
\* a plain day and the days of the 2024 transitions of New York and Berlin
Days == {DayOf(2024, 1, 1), DayOf(2024, 3, 10), DayOf(2024, 3, 31),
         DayOf(2024, 10, 27), DayOf(2024, 11, 3)}

\* native instants handed to the constructors, some with a sub-second part
NearTimes ==
  {Time(day, k * 1800, nsec, loc) :
     day \in Days, k \in 0..MaxHalfHours, nsec \in {0, 500000000}, loc \in Locations}

\* the first instant of the year 10000, whose year takes five digits
FarTimes == {Time(DayOf(10000, 1, 1), 0, 0, loc) : loc \in Locations}

NativeTimes == NearTimes \cup FarTimes

\* texts no layout accepts
BadTexts == {
  <<"n", "o", "t", "-", "a", "-", "d", "a", "t", "e">>,
  <<"g", "a", "r", "b", "a", "g", "e">>,
  <<"2", "0", "2", "4", "0", "1", "0">>,
  <<"2", "0", "2", "4", "0", "2", "3", "0">>,
  <<"2", "0", "2", "4", "1", "3", "0", "1", "T", "0", "0", "0", "0", "0", "0">>,
  <<"2", "0", "2", "4", "0", "1", "0", "1", "T", "2", "4", "0", "0", "0", "0">>,
  <<"2", "0", "2", "4", "0", "1", "0", "1", "T", "0", "0", "0", "0">>,
  <<"2", "0", "2", "4", "0", "1", "0", "1", " ", "0", "0", "0", "0", "0", "0">>,
  <<"Z">>,
  <<>> }

\* texts with a fractional second after the seconds field
FractionTexts == {
  <<"2", "0", "2", "4", "0", "1", "0", "1", "T", "0", "0", "0", "0", "0", "0", ".", "5">>,
  <<"2", "0", "2", "4", "0", "3", "1", "0", "T", "0", "2", "3", "0", "0", "0", ".", "2", "5", "Z">> }

\* the three layouts' texts for the sampled wall clocks
GoodTexts ==
  UNION {{Format(Time(day, k * 1800, 0, UTC), DateTimeFormatString),
          Format(Time(day, k * 1800, 0, UTC), UTCDateTimeFormatString),
          Format(Time(day, 0, 0, UTC), DateFormatString),
          Format(Time(day, 0, 0, UTC), DateFormatString) \o <<"Z">>} :
            day \in Days, k \in 0..MaxTextHalfHours}

Texts == GoodTexts \cup BadTexts \cup FractionTexts

(***************************************************************************)
(* Errors.  An error is the chain of its frames, outermost first; the nil  *)
(* error is the empty chain.  A frame carries what utils.NewError is       *)
(* handed: the operation, the message and the instance; the frames of      *)
(* package time quote the text or the zone name they failed on.            *)
(***************************************************************************)
nil == <<>>

Frame(op, msg, instance, value) ==
  [value |-> value, op |-> op, msg |-> msg, instance |-> instance]

\* utils.NewError(operation, message, instance, cause)
NewError(op, msg, instance, cause) == <<Frame(op, msg, instance, <<>>)>> \o cause

\* the *time.ParseError and the LoadLocation error, as causes
ParseError(value) == <<Frame("time.Parse", "cannot parse", <<>>, value)>>
LocationError(name) == <<Frame("time.LoadLocation", "unknown time zone", <<>>, <<name>>)>>

(***************************************************************************)
(* properties.Params: a set of <<name, value>> pairs with distinct names.  *)
(***************************************************************************)
TimeZoneIdPropertyName == "TZID"

NoParams == {}

Found(params, name) == \E kv \in params : kv[1] = name

Get(params, name) == (CHOOSE kv \in params : kv[1] = name)[2]

(***************************************************************************)
(* DateTime                                                                *)
(***************************************************************************)
DateTime(t) == [t |-> t]

\* new(DateTime)
NewZero == DateTime(ZeroTime)

\* NewDateTime without the truncation to whole seconds
NewDateTimeKeepNanos(t) == DateTime(t)

NewDateTime(t) == DateTime(TruncateSecond(t))

Equals(a, test) == Equal(a.t, test.t)

NativeTime(a) == a.t

EncodeICalValue(a) ==
  LET val == Format(a.t, DateTimeFormatString)
      loc == Location(a.t)
  IN IF loc = UTC THEN val \o <<"Z">> ELSE val

\* the layout DecodeICalValue picks for a value
SniffLayout(value) ==
  IF HasSuffix(value, <<"Z">>) THEN UTCDateTimeFormatString
  ELSE IF Len(value) = 8 THEN DateFormatString
  ELSE DateTimeFormatString

\* time.ParseInLocation(layout, value, loc)
ParseInLocation(layout, value, loc) == parse(layout, value, loc)

\* DecodeICalValue with the ambient zone as the default location
DecodeICalValueInLocal(a, value) ==
  LET Assigned(layout, r) ==
        IF r.err # "ok"
        THEN [d |-> DateTime(r.t),
              err |-> NewError("DateTime.DecodeICalValue",
                               "unable to parse datetime value", DateTime(r.t),
                               ParseError(value))]
        ELSE [d |-> DateTime(r.t), err |-> nil]
  IN Assigned(SniffLayout(value), ParseInLocation(SniffLayout(value), value, Local))

\* [d, err]: the receiver after the call and the error returned
DecodeICalValue(a, value) ==
  LET Assigned(layout, r) ==
        \* d.t, err = time.ParseInLocation(...)
        IF r.err # "ok"
        THEN [d |-> DateTime(r.t),
              err |-> NewError("DateTime.DecodeICalValue",
                               "unable to parse datetime value", DateTime(r.t),
                               ParseError(value))]
        ELSE [d |-> DateTime(r.t), err |-> nil]
  IN Assigned(SniffLayout(value), ParseInLocation(SniffLayout(value), value, UTC))

\* EncodeICalParams with the zone test inverted
EncodeICalParamsInverted(a) ==
  LET loc == Location(a.t)
  IN IF loc = UTC THEN {<<TimeZoneIdPropertyName, LocString(loc)>>} ELSE NoParams

EncodeICalParams(a) ==
  LET loc == Location(a.t)
  IN IF loc # UTC THEN {<<TimeZoneIdPropertyName, LocString(loc)>>} ELSE NoParams

\* DecodeICalParams converting the instant to the zone (Time.In) instead of
\* re-reading the wall clock in it
DecodeICalParamsByInstant(a, params) ==
  IF ~Found(params, TimeZoneIdPropertyName) THEN [d |-> a, err |-> nil]
  ELSE IF LoadLocation(Get(params, TimeZoneIdPropertyName)).err # "ok"
  THEN [d |-> a,
        err |-> NewError("DateTime.DecodeICalValue", "unable to parse timezone", a,
                         LocationError(Get(params, TimeZoneIdPropertyName)))]
  ELSE [d |-> DateTime([a.t EXCEPT
                          !.loc = LoadLocation(Get(params, TimeZoneIdPropertyName)).loc,
                          !.nsec = 0]),
        err |-> nil]

DecodeICalParams(a, params) ==
  LET layout == DateTimeFormatString
      Parsed(value, r) ==
        IF r.err # "ok"
        THEN [d |-> a,
              err |-> NewError("DateTime.DecodeICalValue",
                               "unable to parse datetime value", a, ParseError(value))]
        ELSE [d |-> DateTime(r.t), err |-> nil]
      Loaded(value, name, l) ==
        IF l.err # "ok"
        THEN [d |-> a,
              err |-> NewError("DateTime.DecodeICalValue",
                               "unable to parse timezone", a, LocationError(name))]
        ELSE Parsed(value, ParseInLocation(layout, value, l.loc))
      Formatted(value) ==
        IF ~Found(params, TimeZoneIdPropertyName) THEN [d |-> a, err |-> nil]
        ELSE Loaded(value, Get(params, TimeZoneIdPropertyName),
                    LoadLocation(Get(params, TimeZoneIdPropertyName)))
  IN Formatted(Format(a.t, layout))

ValidateICalValue(a) ==
  LET loc == Location(a.t)
  IN IF loc = Local
     THEN NewError("DateTime.ValidateICalValue",
                   "DateTime location may not Local, please use UTC or explicit Location",
                   a, nil)
     ELSE IF LocString(loc) = ""
     THEN NewError("DateTime.ValidateICalValue",
                   "DateTime location must have a valid name", a, nil)
     ELSE nil

\* DateTimeFullDay shares DateTime's storage
FullDayEncodeICalValue(a) ==
  LET val == Format(a.t, DateFormatString)
      loc == Location(a.t)
  IN IF loc = UTC THEN val \o <<"Z">> ELSE val

(***************************************************************************)
(* type CSV: the list codec.  One text holds the tokens joined by commas; *)
(* a comma or a backslash inside a token is escaped by a backslash.        *)
(***************************************************************************)
RECURSIVE CSVEscape(_)
CSVEscape(token) ==
  IF token = <<>> THEN <<>>
  ELSE (IF Head(token) \in {",", "\\"} THEN <<"\\", Head(token)>> ELSE <<Head(token)>>)
       \o CSVEscape(Tail(token))

RECURSIVE CSVEncodeICalValue(_)
CSVEncodeICalValue(csv) ==
  IF csv = <<>> THEN <<>>
  ELSE IF Len(csv) = 1 THEN CSVEscape(csv[1])
  ELSE CSVEscape(csv[1]) \o <<",">> \o CSVEncodeICalValue(Tail(csv))

CSVError == <<Frame("CSV.DecodeICalValue", "invalid escape", <<>>, <<>>)>>

\* the tokens of value from position i on; cur is the token being read and
\* csv the tokens read so far
RECURSIVE CSVSplit(_, _, _, _)
CSVSplit(value, i, cur, csv) ==
  IF i > Len(value) THEN [err |-> nil, csv |-> Append(csv, cur)]
  ELSE IF value[i] = "\\"
  THEN IF i = Len(value) THEN [err |-> CSVError, csv |-> <<>>]
       ELSE CSVSplit(value, i + 2, Append(cur, value[i + 1]), csv)
  ELSE IF value[i] = "," THEN CSVSplit(value, i + 1, <<>>, Append(csv, cur))
  ELSE CSVSplit(value, i + 1, Append(cur, value[i]), csv)

CSVDecodeICalValue(value) == CSVSplit(value, 1, <<>>, <<>>)

(***************************************************************************)
(* type DateTimes []*DateTime: a list of values, each element its own      *)
(* DateTime.                                                               *)
(***************************************************************************)
IndexMsg(msg, i) == <<msg, i>>

DateTimesEncodeICalValue(l) ==
  CSVEncodeICalValue([i \in 1..Len(l) |-> EncodeICalValue(l[i])])

DateTimesEncodeICalParams(l) ==
  IF Len(l) > 0 THEN EncodeICalParams(l[1]) ELSE NoParams

\* DateTimes.DecodeICalParams that carries on after an element's failure
RECURSIVE DateTimesDecodeICalParamsCarryOn(_, _, _)
DateTimesDecodeICalParamsCarryOn(l, params, i) ==
  LET Applied(r, rest) ==
        IF r.err # nil /\ rest.err = nil
        THEN [ds |-> rest.ds,
              err |-> NewError("DateTimes.DecodeICalValue",
                               IndexMsg("unable to decode datetime params for index", i - 1),
                               l, r.err)]
        ELSE rest
  IN IF i > Len(l) THEN [ds |-> l, err |-> nil]
     ELSE Applied(DecodeICalParams(l[i], params),
                  DateTimesDecodeICalParamsCarryOn(
                    [l EXCEPT ![i] = DecodeICalParams(l[i], params).d], params, i + 1))

\* the loop of DateTimes.DecodeICalParams from index i (counted from 1) on
RECURSIVE DateTimesDecodeICalParams(_, _, _)
DateTimesDecodeICalParams(l, params, i) ==
  LET Applied(r) ==
        IF r.err # nil
        THEN [ds |-> l,
              err |-> NewError("DateTimes.DecodeICalValue",
                               IndexMsg("unable to decode datetime params for index", i - 1),
                               l, r.err)]
        ELSE DateTimesDecodeICalParams([l EXCEPT ![i] = r.d], params, i + 1)
  IN IF i > Len(l) THEN [ds |-> l, err |-> nil]
     ELSE Applied(DecodeICalParams(l[i], params))

\* the loop of DateTimes.DecodeICalValue over the tokens from index i on
RECURSIVE DecodeTokens(_, _, _)
DecodeTokens(l, csv, i) ==
  LET Decoded(r) ==
        IF r.err # nil
        THEN [ds |-> l,
              err |-> NewError("DateTimes.DecodeICalValue",
                               IndexMsg("unable to decode datetime at index", i - 1),
                               l, r.err)]
        ELSE DecodeTokens(Append(l, r.d), csv, i + 1)
  IN IF i > Len(csv) THEN [ds |-> l, err |-> nil]
     ELSE Decoded(DecodeICalValue(NewZero, csv[i]))

\* DateTimes.DecodeICalValue that gives the list back as it was on a failure
DateTimesDecodeICalValueAtomic(l, value) ==
  LET Split(c) ==
        IF c.err # nil
        THEN [ds |-> l,
              err |-> NewError("DateTimes.DecodeICalValue",
                               IndexMsg("unable to decode datetime list as CSV", 0),
                               l, c.err)]
        ELSE [ds |-> IF DecodeTokens(l, c.csv, 1).err # nil THEN l
                     ELSE DecodeTokens(l, c.csv, 1).ds,
              err |-> DecodeTokens(l, c.csv, 1).err]
  IN Split(CSVDecodeICalValue(value))

DateTimesDecodeICalValue(l, value) ==
  LET Split(c) ==
        IF c.err # nil
        THEN [ds |-> l,
              err |-> NewError("DateTimes.DecodeICalValue",
                               IndexMsg("unable to decode datetime list as CSV", 0),
                               l, c.err)]
        ELSE DecodeTokens(l, c.csv, 1)
  IN Split(CSVDecodeICalValue(value))

(***************************************************************************)
(* Inputs, continued.                                                      *)
(***************************************************************************)
\* parameter blocks: none, a foreign parameter only, and a TZID of each kind
ParamBlocks ==
  {NoParams, {<<"VALUE", "DATE-TIME">>}}
    \cup {{<<TimeZoneIdPropertyName, name>>} :
            name \in {"UTC", "", "Local", NewYork, Berlin, "Nowhere/Bogus"}}

(***************************************************************************)
(* Spec: one DateTime and the calls made on it.  ret is the last call: the *)
(* operation, its text (argument or result), its parameter block (argument *)
(* or result) and the error it returned.                                   *)
(***************************************************************************)
Ret(op, text, params, err) == [err |-> err, op |-> op, params |-> params, text |-> text]

Idle == [pc |-> "idle"]

Init ==
  /\ d \in {NewDateTime(t) : t \in NativeTimes} \cup {NewZero}
  /\ ret = Ret("NewDateTime", <<>>, NoParams, nil)
  /\ ds = <<>>
  /\ rt = Idle

CallDecodeICalValue ==
  \E value \in Texts :
    \E r \in {DecodeICalValue(d, value)} :
      /\ d' = r.d
      /\ ret' = Ret("DateTime.DecodeICalValue", value, NoParams, r.err)
      /\ UNCHANGED <<ds, rt>>

CallDecodeICalParams ==
  \E params \in ParamBlocks :
    \E r \in {DecodeICalParams(d, params)} :
      /\ d' = r.d
      /\ ret' = Ret("DateTime.DecodeICalParams", <<>>, params, r.err)
      /\ UNCHANGED <<ds, rt>>

CallEncodeICalValue ==
  /\ ret' = Ret("DateTime.EncodeICalValue", EncodeICalValue(d), NoParams, nil)
  /\ UNCHANGED <<d, ds, rt>>

CallEncodeICalParams ==
  /\ ret' = Ret("DateTime.EncodeICalParams", <<>>, EncodeICalParams(d), nil)
  /\ UNCHANGED <<d, ds, rt>>

CallValidateICalValue ==
  /\ ret' = Ret("DateTime.ValidateICalValue", <<>>, NoParams, ValidateICalValue(d))
  /\ UNCHANGED <<d, ds, rt>>

Next ==
  \/ CallDecodeICalValue
  \/ CallDecodeICalParams
  \/ CallEncodeICalValue
  \/ CallEncodeICalParams
  \/ CallValidateICalValue

Spec == Init /\ [][Next]_vars

(***************************************************************************)
(* SpecRoundTrip: a value v is constructed, encoded (as a DateTime or, if  *)
(* full, as a DateTimeFullDay), and the text and the parameter block are   *)
(* decoded into a fresh DateTime: DecodeICalValue, then DecodeICalParams.  *)
(***************************************************************************)
RoundTrip(pc, full, v, text, params, fresh, err) ==
  [v |-> v, err |-> err, params |-> params, text |-> text, pc |-> pc, full |-> full,
   fresh |-> fresh]

InitRoundTrip ==
  /\ rt \in {RoundTrip("constructed", full, NewDateTime(t), <<>>, NoParams, NewZero, nil) :
               full \in BOOLEAN, t \in NativeTimes}
  /\ d = NewZero
  /\ ds = <<>>
  /\ ret = Ret("", <<>>, NoParams, nil)

StepEncodeICalValue ==
  /\ rt.pc = "constructed"
  /\ rt' = [rt EXCEPT !.pc = "value encoded",
                      !.text = IF rt.full THEN FullDayEncodeICalValue(rt.v)
                               ELSE EncodeICalValue(rt.v)]
  /\ UNCHANGED <<d, ds, ret>>

StepEncodeICalParams ==
  /\ rt.pc = "value encoded"
  /\ rt' = [rt EXCEPT !.pc = "encoded", !.params = EncodeICalParams(rt.v)]
  /\ UNCHANGED <<d, ds, ret>>

StepDecodeICalValue ==
  /\ rt.pc = "encoded"
  /\ \E r \in {DecodeICalValue(rt.fresh, rt.text)} :
       rt' = [rt EXCEPT !.pc = IF r.err = nil THEN "value decoded" ELSE "failed",
                        !.fresh = r.d, !.err = r.err]
  /\ UNCHANGED <<d, ds, ret>>

StepDecodeICalParams ==
  /\ rt.pc = "value decoded"
  /\ \E r \in {DecodeICalParams(rt.fresh, rt.params)} :
       rt' = [rt EXCEPT !.pc = IF r.err = nil THEN "done" ELSE "failed",
                        !.fresh = r.d, !.err = r.err]
  /\ UNCHANGED <<d, ds, ret>>

NextRoundTrip ==
  \/ StepEncodeICalValue
  \/ StepEncodeICalParams
  \/ StepDecodeICalValue
  \/ StepDecodeICalParams

SpecRoundTrip == InitRoundTrip /\ [][NextRoundTrip]_vars

(***************************************************************************)
(* SpecList: one DateTimes list and the calls made on it.                  *)
(***************************************************************************)
\* the elements a list starts with: a plain UTC value and a far one
SeedValues == {NewDateTime(Time(DayOf(2024, 1, 1), 0, 0, UTC)),
               NewDateTime(Time(DayOf(10000, 1, 1), 0, 0, UTC))}

RECURSIVE SeqsUpTo(_, _)
SeqsUpTo(S, n) ==
  IF n = 0 THEN {<<>>}
  ELSE SeqsUpTo(S, n - 1) \cup
       {Append(q, x) : q \in {p \in SeqsUpTo(S, n - 1) : Len(p) = n - 1}, x \in S}

Tokens == {<<"2", "0", "2", "4", "0", "1", "0", "1", "T", "0", "0", "0", "0", "0", "0", "Z">>,
           <<"2", "0", "2", "4", "0", "3", "1", "0">>,
           <<"g", "a", "r", "b", "a", "g", "e">>}

\* the texts of one to MaxTokens tokens, and one text that ends in a lone backslash
ListTexts ==
  {CSVEncodeICalValue(csv) : csv \in SeqsUpTo(Tokens, MaxTokens) \ {<<>>}}
    \cup {<<"2", "0", "2", "4", "0", "3", "1", "0", "\\">>}

ListParamBlocks ==
  {NoParams} \cup
  {{<<TimeZoneIdPropertyName, name>>} : name \in {NewYork, "Nowhere/Bogus"}}

InitList ==
  /\ ds \in SeqsUpTo(SeedValues, MaxListLen)
  /\ d = NewZero
  /\ ret = Ret("NewDateTimes", <<>>, NoParams, nil)
  /\ rt = Idle

ListDecodeICalValue ==
  \E value \in ListTexts :
    /\ Len(ds) + MaxTokens <= MaxListLen
    /\ \E r \in {DateTimesDecodeICalValue(ds, value)} :
         /\ ds' = r.ds
         /\ ret' = Ret("DateTimes.DecodeICalValue", value, NoParams, r.err)
    /\ UNCHANGED <<d, rt>>

ListDecodeICalParams ==
  \E params \in ListParamBlocks :
    /\ \E r \in {DateTimesDecodeICalParams(ds, params, 1)} :
         /\ ds' = r.ds
         /\ ret' = Ret("DateTimes.DecodeICalParams", <<>>, params, r.err)
    /\ UNCHANGED <<d, rt>>

ListEncodeICalValue ==
  /\ ret' = Ret("DateTimes.EncodeICalValue", DateTimesEncodeICalValue(ds), NoParams, nil)
  /\ UNCHANGED <<d, ds, rt>>

ListEncodeICalParams ==
  /\ ret' = Ret("DateTimes.EncodeICalParams", <<>>, DateTimesEncodeICalParams(ds), nil)
  /\ UNCHANGED <<d, ds, rt>>

NextList ==
  \/ ListDecodeICalValue
  \/ ListDecodeICalParams
  \/ ListEncodeICalValue
  \/ ListEncodeICalParams

SpecList == InitList /\ [][NextList]_vars

(***************************************************************************)
(* Vocabulary of the properties.                                           *)
(***************************************************************************)
DecodeValueOp == "DateTime.DecodeICalValue"
DecodeParamsOp == "DateTime.DecodeICalParams"

\* the wall clock of a value, as an instant read in UTC
WallInst(t) == AddSeconds(InstOf(t), lookup(t.loc, InstOf(t)).offset)

\* the periods of loc in which some instant shows wall clock w
PeriodsShowing(w, loc) ==
  {k \in 1..Len(ZoneTable[loc]) :
     PeriodAt(ZoneTable[loc], AddSeconds(w, -ZoneTable[loc][k].off)) = k}

\* w is skipped by loc (a daylight-saving gap) / shown twice (an overlap)
InGap(w, loc) == PeriodsShowing(w, loc) = {}
InOverlap(w, loc) == Cardinality(PeriodsShowing(w, loc)) > 1

\* the wall-clock year of t is one the four-digit year field can spell
FourDigitYear(t) == Wall(t).year \in 0..9999

\* the zones ValidateICalValue accepts: UTC and the named ones
ValidZones == {UTC, NewYork, Berlin}

\* the text grammar of section 6: the exact shape of each layout
NumAt(text, i, n) == atoi(SubSeq(text, i, i + n - 1))

DateShape(text) ==
  /\ Len(text) >= 8
  /\ AllDigits(SubSeq(text, 1, 8))
  /\ NumAt(text, 5, 2) \in 1..12
  /\ NumAt(text, 7, 2) \in 1..daysIn(NumAt(text, 5, 2), NumAt(text, 1, 4))

TimeShape(text) ==
  /\ Len(text) >= 15
  /\ text[9] = "T"
  /\ AllDigits(SubSeq(text, 10, 15))
  /\ NumAt(text, 10, 2) < 24 /\ NumAt(text, 12, 2) < 60 /\ NumAt(text, 14, 2) < 60

MatchesDate(text) == Len(text) = 8 /\ DateShape(text)
MatchesLocal(text) == Len(text) = 15 /\ DateShape(text) /\ TimeShape(text)
MatchesUTC(text) ==
  Len(text) = 16 /\ DateShape(text) /\ TimeShape(text) /\ text[16] = "Z"

\* the text matches the layout the claim selects for it
MatchesSelected(text) ==
  IF HasSuffix(text, <<"Z">>) THEN MatchesUTC(text)
  ELSE IF Len(text) = 8 THEN MatchesDate(text)
  ELSE MatchesLocal(text)

\* the wall-clock fields a matching text spells (midnight for date-only)
FieldsOf(text) ==
  [year |-> NumAt(text, 1, 4), month |-> NumAt(text, 5, 2), day |-> NumAt(text, 7, 2),
   sec  |-> IF Len(text) = 8 THEN 0 ELSE NumAt(text, 14, 2),
   hour |-> IF Len(text) = 8 THEN 0 ELSE NumAt(text, 10, 2),
   min  |-> IF Len(text) = 8 THEN 0 ELSE NumAt(text, 12, 2)]

(***************************************************************************)
(* Properties of one DateTime (specification Spec).                        *)
(***************************************************************************)

\* C3: a DecodeICalValue call that returns an error leaves the receiver's
\* stored instant and zone as they were before the call.
C3_FailedDecodeKeepsReceiver ==
  [][(ret'.op = DecodeValueOp /\ ret'.err # nil) => d' = d]_vars

\* C6 as claimed: in every reachable state the zone is UTC or a named zone,
\* never the ambient Local zone nor an unnamed one, and ValidateICalValue passes.
C6_ZoneAlwaysValid ==
  Location(d.t) \in ValidZones /\ ValidateICalValue(d) = nil

\* C6 as amended: a call leaves the value in the Local or an unnamed zone only
\* if the value was in that zone before it, or the call is a successful
\* DecodeICalParams with TZID "Local" (which leaves it in Local); every
\* DecodeICalValue call leaves it in UTC; and ValidateICalValue passes exactly
\* when the zone is UTC or a named zone.
C6_ZoneStep ==
  /\ ret'.op = DecodeValueOp => Location(d'.t) = UTC
  /\ Location(d'.t) \notin ValidZones =>
       \/ Location(d'.t) = Location(d.t)
       \/ /\ ret'.op = DecodeParamsOp
          /\ ret'.err = nil
          /\ <<TimeZoneIdPropertyName, "Local">> \in ret'.params
          /\ Location(d'.t) = Local
  /\ (ValidateICalValue(d') = nil) <=> (Location(d'.t) \in ValidZones)

C6_ZoneAmended == [][C6_ZoneStep]_vars

\* a DecodeICalParams with TZID "Local" has put a decoded value in the Local zone
C6_Witness ==
  /\ ret.op = DecodeParamsOp
  /\ ret.err = nil
  /\ Location(d.t) = Local
  /\ Wall(d.t).hour = 2 /\ Wall(d.t).min = 30

\* C7: an error names the operation that returned it.
C7_ErrorNamesItsOperation ==
  ret.err # nil => ret.err[1].op = ret.op

\* C8: DecodeICalValue succeeds exactly on the texts that match the layout
\* selected for them (UTC layout for a trailing Z, date-only for length 8, local
\* otherwise); on success the value has the text's wall-clock fields, its zone
\* is UTC, its EncodeICalParams is empty and its EncodeICalValue ends in Z.
C8_LayoutAndAnchoring ==
  ret.op = DecodeValueOp =>
    /\ (ret.err = nil) <=> MatchesSelected(ret.text)
    /\ ret.err = nil =>
         /\ Wall(d.t) = FieldsOf(ret.text)
         /\ Location(d.t) = UTC
         /\ EncodeICalParams(d) = NoParams
         /\ HasSuffix(EncodeICalValue(d), <<"Z">>)

\* what a DecodeICalParams step with parameter block `params` must do;
\* `always` says whether a resolved zone must take every wall clock as it is,
\* also one it skips and one whose year the layout cannot spell
ParamsStep(always) ==
  ret'.op = DecodeParamsOp =>
    IF ~Found(ret'.params, TimeZoneIdPropertyName)
    THEN ret'.err = nil /\ d' = d
    ELSE IF LoadLocation(Get(ret'.params, TimeZoneIdPropertyName)).err # "ok"
    THEN ret'.err # nil /\ d' = d
    ELSE IF ~always /\ ~FourDigitYear(d.t)
    THEN ret'.err # nil /\ d' = d
    ELSE /\ ret'.err = nil
         /\ Location(d'.t) = LoadLocation(Get(ret'.params, TimeZoneIdPropertyName)).loc
         /\ IF always \/ ~InGap(WallInst(d.t), Location(d'.t))
            THEN Wall(d'.t) = Wall(d.t)
            ELSE WallInst(d'.t) \in {AddSeconds(WallInst(d.t), 3600),
                                     AddSeconds(WallInst(d.t), -3600)}

\* C9 as claimed: without a TZID the receiver is unchanged; with a TZID that
\* resolves, the zone becomes that zone and the wall-clock fields stay the
\* same; with an unresolvable TZID the call fails and the receiver is unchanged.
C9_ReanchorKeepsWallClock == [][ParamsStep(TRUE)]_vars

\* C9 as amended: the wall-clock fields stay the same when the zone shows that
\* wall clock; a wall clock the zone skips (a daylight-saving gap) is moved by
\* the width of the gap, one hour, to a wall clock the zone shows; a receiver
\* whose wall-clock year is not in 0000..9999 fails and is left unchanged.
C9_ReanchorAmended == [][ParamsStep(FALSE)]_vars

\* a value decoded from Z-suffixed text has been re-anchored to New York
C9_Witness ==
  /\ ret.op = DecodeParamsOp
  /\ ret.err = nil
  /\ ret.params = {<<TimeZoneIdPropertyName, NewYork>>}
  /\ Location(d.t) = NewYork
  /\ Wall(d.t) = [year |-> 2024, month |-> 3, day |-> 10, sec |-> 0, hour |-> 1, min |-> 30]

(***************************************************************************)
(* Properties of the round trips (specification SpecRoundTrip).            *)
(***************************************************************************)
NamedZones == {NewYork, Berlin}

\* what the round trip of the value's text must give
ValueRoundTrip ==
  /\ rt.pc # "failed"
  /\ Equals(rt.fresh, rt.v)
  /\ Location(rt.fresh.t) = UTC

\* C1 as claimed: for every constructed value v in UTC, DecodeICalValue of its
\* EncodeICalValue on a fresh value succeeds and gives a value that Equals v
\* and is in UTC.
C1_UTCRoundTrip ==
  (~rt.full /\ Location(rt.v.t) = UTC /\ rt.pc \in {"value decoded", "done", "failed"}) =>
    ValueRoundTrip

\* C1 as amended: the same, for the values v whose year is in 0000..9999.
C1_UTCAmended ==
  (~rt.full /\ Location(rt.v.t) = UTC /\ FourDigitYear(rt.v.t)
     /\ rt.pc \in {"value decoded", "done", "failed"}) =>
    ValueRoundTrip

\* a UTC value at 02:30:00 has been encoded and decoded
C1_Witness ==
  /\ ~rt.full /\ Location(rt.v.t) = UTC /\ rt.pc = "value decoded"
  /\ rt.v.t.sec = 9000
  /\ rt.text[16] = "Z"

\* C2 as claimed: for every v in a named zone, overlaps included, decoding
\* value then parameters succeeds and reproduces v's instant and zone.
C2_ZonedRoundTrip ==
  (~rt.full /\ Location(rt.v.t) \in NamedZones /\ rt.pc \in {"done", "failed"}) =>
    /\ rt.pc = "done"
    /\ Equals(rt.fresh, rt.v)
    /\ Location(rt.fresh.t) = Location(rt.v.t)

\* C2 as amended: for v with a wall-clock year in 0000..9999, the instant is
\* reproduced when v's zone shows v's wall clock once; a value in a
\* daylight-saving overlap comes back in the same zone with the same wall
\* clock, as one of the two instants that show it.
C2_ZonedAmended ==
  (~rt.full /\ Location(rt.v.t) \in NamedZones /\ FourDigitYear(rt.v.t)
     /\ rt.pc \in {"done", "failed"}) =>
    /\ rt.pc = "done"
    /\ Location(rt.fresh.t) = Location(rt.v.t)
    /\ Wall(rt.fresh.t) = Wall(rt.v.t)
    /\ ~InOverlap(WallInst(rt.v.t), Location(rt.v.t)) => Equals(rt.fresh, rt.v)

\* a New York value of the day of the autumn transition, outside the overlap,
\* has made the round trip
C2_Witness ==
  /\ ~rt.full /\ rt.pc = "done"
  /\ Location(rt.v.t) = NewYork
  /\ rt.v.t.day = DayOf(2024, 11, 3)
  /\ ~InOverlap(WallInst(rt.v.t), NewYork)
  /\ rt.params = {<<TimeZoneIdPropertyName, NewYork>>}

\* C10: the text a DateTimeFullDay encodes to, for a UTC or a named zone, is
\* accepted by DecodeICalValue and decodes to midnight of the same date.
C10_FullDayRoundTrip ==
  (rt.full /\ Location(rt.v.t) \in NamedZones \cup {UTC}
     /\ rt.pc \in {"value decoded", "failed"}) =>
    /\ rt.pc = "value decoded"
    /\ Wall(rt.fresh.t) = [Wall(rt.v.t) EXCEPT !.sec = 0, !.hour = 0, !.min = 0]

(***************************************************************************)
(* Properties of a DateTimes list (specification SpecList).                *)
(***************************************************************************)
ListDecodeValueOp == "DateTimes.DecodeICalValue"
ListDecodeParamsOp == "DateTimes.DecodeICalParams"

\* token csv[i] decodes, on a fresh DateTime
TokenDecodes(csv, i) == DecodeICalValue(NewZero, csv[i]).err = nil

\* the tokens before the first one that fails to decode (all, if none fails)
GoodPrefix(csv) ==
  IF \E i \in 1..Len(csv) : ~TokenDecodes(csv, i)
  THEN SubSeq(csv, 1, (CHOOSE i \in 1..Len(csv) :
                         /\ ~TokenDecodes(csv, i)
                         /\ \A j \in 1..(i - 1) : TokenDecodes(csv, j)) - 1)
  ELSE csv

DecodedValues(csv) == [i \in 1..Len(csv) |-> DecodeICalValue(NewZero, csv[i]).d]

\* C4: a DateTimes.DecodeICalValue of a validly escaped text fails exactly when
\* some token fails to decode, and leaves the list as the list before the call
\* followed by the decoded values of the tokens before the first failing one
\* (of all tokens, if none fails), in order.
C4_ListDecodeStep ==
  (ret'.op = ListDecodeValueOp /\ CSVDecodeICalValue(ret'.text).err = nil) =>
    /\ (ret'.err # nil) <=> (GoodPrefix(CSVDecodeICalValue(ret'.text).csv)
                               # CSVDecodeICalValue(ret'.text).csv)
    /\ ds' = ds \o DecodedValues(GoodPrefix(CSVDecodeICalValue(ret'.text).csv))

C4_ListDecodeAppends == [][C4_ListDecodeStep]_vars

\* "20240101T000000Z,garbage" was decoded into a list that held an element: the
\* call failed and the list ends with the UTC instant 2024-01-01T00:00:00
C4_Witness ==
  /\ ret.op = ListDecodeValueOp
  /\ ret.err # nil
  /\ ret.text = <<"2", "0", "2", "4", "0", "1", "0", "1", "T", "0", "0", "0", "0", "0", "0",
                  "Z", ",", "g", "a", "r", "b", "a", "g", "e">>
  /\ Len(ds) = 2
  /\ Location(ds[1].t) = UTC /\ Wall(ds[1].t).year = 10000
  /\ Equal(ds[2].t, Time(DayOf(2024, 1, 1), 0, 0, UTC)) /\ Location(ds[2].t) = UTC

\* element i of the list fails DecodeICalParams with the block of the call
ElementFails(i) == DecodeICalParams(ds[i], ret'.params).err # nil

\* C5: DateTimes.DecodeICalParams fails exactly when some element fails; the
\* error names the index of the first element that fails, the elements before
\* it hold their re-zoned values and those after it are as before the call; if
\* none fails, every element holds its re-zoned value.
C5_ListParamsStep ==
  ret'.op = ListDecodeParamsOp =>
    /\ Len(ds') = Len(ds)
    /\ (ret'.err # nil) <=> (\E i \in 1..Len(ds) : ElementFails(i))
    /\ \A k \in 1..Len(ds) :
         (ElementFails(k) /\ \A j \in 1..(k - 1) : ~ElementFails(j)) =>
           /\ ret'.err[1].msg[2] = k - 1
           /\ \A j \in 1..(k - 1) : ds'[j] = DecodeICalParams(ds[j], ret'.params).d
           /\ \A j \in (k + 1)..Len(ds) : ds'[j] = ds[j]
    /\ (\A i \in 1..Len(ds) : ~ElementFails(i)) =>
         \A j \in 1..Len(ds) : ds'[j] = DecodeICalParams(ds[j], ret'.params).d

C5_ListParamsNoRollback == [][C5_ListParamsStep]_vars

\* a call with TZID America/New_York failed at index 1 of a list of three: the
\* element before is in New York, the one after is still in UTC
C5_Witness ==
  /\ ret.op = ListDecodeParamsOp
  /\ ret.err # nil
  /\ ret.err[1].msg[2] = 1
  /\ ret.params = {<<TimeZoneIdPropertyName, NewYork>>}
  /\ Len(ds) = 3
  /\ Location(ds[1].t) = NewYork
  /\ Location(ds[3].t) = UTC /\ Wall(ds[3].t).year = 2024

====
